---- MODULE Spec2Model ----
(***************************************************************************)
(* Model of cloudcafe/images/v2/behaviors.py (class ImagesBehaviors):      *)
(*   wait_for_image_status   - the poll-until-status loop                  *)
(*   list_images_pagination  - the paginated listing accumulation          *)
(*   validate_image / validate_image_member - field validation             *)
(*   create_new_image / create_new_images   - create-and-track             *)
(* Python strings that are compared, lower-cased, matched or formatted are *)
(* sequences of one-character strings; None is the record PyNone.          *)
(***************************************************************************)
EXTENDS Integers, Sequences, FiniteSets, TLC

VARIABLES
    \* ---- wait_for_image_status
    wpc,            \* position in wait_for_image_status
    wargs,          \* the call's arguments and the locals of lines 203-205
    config,         \* self.config: image_status_interval, snapshot_timeout, results_limit
    imageHasId,     \* whether the entity class of get_image has an attribute `id`
    ERROR,          \* ImageStatus.ERROR, the error sentinel
    now,            \* time.time()
    fetchStart,     \* value of the clock when the latest get_image call started
    nFetch,         \* number of get_image calls made
    resp,           \* local `resp`: number of the fetch that produced it, and its status
    sleptSince,     \* number of time.sleep calls after the latest fetch
    woutcome,       \* how the call ended
    wreturned,      \* the value returned by the call (number of the fetch) or 0
    \* ---- list_images_pagination
    ppc, pargs, service, requests, pages, images, image_list, marker, presult,
    \* ---- validate_image / validate_image_member
    vpc, image, image_member, vargs, vresult,
    \* ---- create_new_image / create_new_images
    cpc, cargs, resources, createCalls, entities, cimage_list, ci, creturned

waitVars == <<wpc, wargs, config, imageHasId, ERROR, now, fetchStart, nFetch, resp,
              sleptSince, woutcome, wreturned>>
pageVars == <<ppc, pargs, service, requests, pages, images, image_list, marker, presult>>
validVars == <<vpc, image, image_member, vargs, vresult>>
createVars == <<cpc, cargs, resources, createCalls, entities, cimage_list, ci, creturned>>
vars == <<waitVars, pageVars, validVars, createVars>>

(***************************************************************************)
(* Bounds of the model                                                     *)
(***************************************************************************)
MaxInterval == 2      \* interval_time and config.image_status_interval range over 1..MaxInterval
MaxTimeout == 3       \* timeout and config.snapshot_timeout range over 1..MaxTimeout
MaxFetchDelay == 1    \* seconds a blocking get_image call may take: 0..MaxFetchDelay
MaxLimit == 2         \* config.results_limit ranges over 1..MaxLimit
MaxRequests == 3      \* list_images calls made against the unconstrained service
MaxItems == 6         \* items held by the cursor service: 0..MaxItems
MaxCreates == 3       \* create_image calls over a run
MaxCount == 2         \* count argument of create_new_images: 0..MaxCount

(***************************************************************************)
(* Python values                                                           *)
(***************************************************************************)
PyNone == [type |-> "NoneType"]
PyStr(chars) == [type |-> "str", val |-> chars]
PyTrue == [type |-> "bool", val |-> TRUE]
PyList(items) == [type |-> "list", val |-> items]

\* str.lower() on the letters that occur in the model
UpperToLower == [A |-> "a", B |-> "b", C |-> "c", D |-> "d", E |-> "e", F |-> "f",
                 G |-> "g", H |-> "h", I |-> "i", J |-> "j", K |-> "k", L |-> "l",
                 M |-> "m", N |-> "n", O |-> "o", P |-> "p", Q |-> "q", R |-> "r",
                 S |-> "s", T |-> "t", U |-> "u", V |-> "v", W |-> "w", X |-> "x",
                 Y |-> "y", Z |-> "z"]
LowerChar(c) == IF c \in DOMAIN UpperToLower THEN UpperToLower[c] ELSE c
lower(s) == [i \in 1..Len(s) |-> LowerChar(s[i])]

\* image statuses a fetch may report, in several letter cases
Statuses == { <<"e","r","r","o","r">>, <<"E","R","R","O","R">>, <<"E","r","r","o","r">>,
              <<"a","c","t","i","v","e">>, <<"A","C","T","I","V","E">>,
              <<"q","u","e","u","e","d">> }
ErrorSentinels == { <<"e","r","r","o","r">>, <<"E","R","R","O","R">> }

(***************************************************************************)
(* wait_for_image_status                                                   *)
(***************************************************************************)
\* `x or y` on integers: x when truthy (non-zero; None is modelled as 0)
Or(x, y) == IF x # 0 THEN x ELSE y

\* line 211: image.status.lower() == ImageStatus.ERROR.lower()
IsErrorStatus(status) == lower(status) = lower(ERROR)

\* line 216: image.status == desired_status
DesiredReachedIgnoringCase(status, desired_status) == lower(status) = lower(desired_status)
DesiredReached(status, desired_status) == status = desired_status

\* "...".format(image.id) of line 214: raises AttributeError when the entity
\* has no attribute `id` (the rest of the class reads `id_`), so the
\* BuildErrorException is never constructed
RaisedOnError == IF imageHasId THEN "BuildErrorException" ELSE "AttributeError"

WaitIdle ==
    /\ wpc = "idle" /\ wargs = PyNone /\ now = 0 /\ fetchStart = 0 /\ nFetch = 0
    /\ resp = [fetch |-> 0, status |-> <<>>] /\ sleptSince = 0
    /\ woutcome = "none" /\ wreturned = 0

\* lines 203-205
WaitCall ==
    /\ wpc = "idle"
    /\ \E desired_status \in Statuses, interval_time \in 0..MaxInterval, timeout \in 0..MaxTimeout :
         wargs' = [desired_status |-> desired_status,
                   interval_time |-> Or(interval_time, config.image_status_interval),
                   timeout |-> Or(timeout, config.snapshot_timeout),
                   start |-> now,
                   end_time |-> now + Or(timeout, config.snapshot_timeout)]
    /\ wpc' = "test"
    /\ UNCHANGED <<config, imageHasId, ERROR, now, fetchStart, nFetch, resp, sleptSince,
                   woutcome, wreturned>>

\* line 207, and the else clause of the loop (lines 219-223)
WaitLoopTest ==
    /\ wpc = "test"
    /\ IF now < wargs.end_time
          THEN wpc' = "fetch" /\ UNCHANGED woutcome
          ELSE wpc' = "done" /\ woutcome' = "TimeoutException"
    /\ UNCHANGED <<wargs, config, imageHasId, ERROR, now, fetchStart, nFetch, resp,
                   sleptSince, wreturned>>

\* lines 208-209: the blocking fetch; the service reports any status
WaitGetImage ==
    /\ wpc = "fetch"
    /\ \E status \in Statuses, delay \in 0..MaxFetchDelay :
         /\ resp' = [fetch |-> nFetch + 1, status |-> status]
         /\ now' = now + delay
    /\ fetchStart' = now
    /\ nFetch' = nFetch + 1
    /\ sleptSince' = 0
    /\ wpc' = "chkError"
    /\ UNCHANGED <<wargs, config, imageHasId, ERROR, woutcome, wreturned>>

\* lines 211-214
WaitCheckError ==
    /\ wpc = "chkError"
    /\ IF IsErrorStatus(resp.status)
          THEN wpc' = "done" /\ woutcome' = RaisedOnError
          ELSE wpc' = "chkDesired" /\ UNCHANGED woutcome
    /\ UNCHANGED <<wargs, config, imageHasId, ERROR, now, fetchStart, nFetch, resp,
                   sleptSince, wreturned>>

\* lines 216-217 and, after the break, line 225
WaitCheckDesiredNoBreak ==
    /\ wpc = "chkDesired"
    /\ wpc' = "sleep"
    /\ UNCHANGED <<wargs, config, imageHasId, ERROR, now, fetchStart, nFetch, resp,
                   sleptSince, woutcome, wreturned>>
WaitCheckDesired ==
    /\ wpc = "chkDesired"
    /\ IF DesiredReached(resp.status, wargs.desired_status)
          THEN wpc' = "done" /\ woutcome' = "return" /\ wreturned' = resp.fetch
          ELSE wpc' = "sleep" /\ UNCHANGED <<woutcome, wreturned>>
    /\ UNCHANGED <<wargs, config, imageHasId, ERROR, now, fetchStart, nFetch, resp,
                   sleptSince>>

\* line 218
WaitSleep ==
    /\ wpc = "sleep"
    /\ now' = now + wargs.interval_time
    /\ sleptSince' = sleptSince + 1
    /\ wpc' = "test"
    /\ UNCHANGED <<wargs, config, imageHasId, ERROR, fetchStart, nFetch, resp,
                   woutcome, wreturned>>

(***************************************************************************)
(* list_images_pagination                                                  *)
(***************************************************************************)
\* the k-th image id known to the service; an entity of a page carries its id_
ImageId(k) == [type |-> "str", uuid |-> k]
Entity(k) == [id_ |-> ImageId(k)]

Min(a, b) == IF a < b THEN a ELSE b

RECURSIVE SeqsUpTo(_, _)
SeqsUpTo(S, n) ==
    IF n = 0 THEN { <<>> }
    ELSE LET shorter == SeqsUpTo(S, n - 1)
         IN shorter \cup { Append(q, x) : q \in { r \in shorter : Len(r) = n - 1 }, x \in S }

\* A service that holds service.n items in a fixed order and answers a
\* request with the next at most results_limit items after the marker.
ServiceItems == [k \in 1..service.n |-> Entity(k)]
PositionOf(m) == IF m = PyNone THEN 0
                 ELSE CHOOSE k \in 1..service.n : ServiceItems[k].id_ = m
CursorPage(m) == SubSeq(ServiceItems, PositionOf(m) + 1,
                        Min(service.n, PositionOf(m) + config.results_limit))

\* ids an unconstrained client reports
ReportedIds == {1, 2}

\* response.entity of client.list_images(**kwargs): the page of the cursor
\* service, or, of a service about which nothing is assumed, any page of up
\* to one item more than results_limit
ListImagesEntity(kwargs) ==
    IF service.kind = "cursor" THEN { CursorPage(kwargs.marker) }
    ELSE SeqsUpTo({ Entity(k) : k \in ReportedIds }, config.results_limit + 1)

RequestCap == IF service.kind = "cursor" THEN service.n + 2 ELSE MaxRequests

\* values of the caller's `limit` argument
LimitArgs == { PyNone, [type |-> "int", val |-> 1] }

\* the keyword arguments of a list_images call (lines 86-93 and 98-105):
\* `filters` stands for the sixteen arguments other than limit and marker
Kwargs(m) == [filters |-> pargs.filters, limit |-> pargs.limit, marker |-> m]

\* line 95: while len(images) == results_limit
LoopConditionAtLeast(n, results_limit) == n >= results_limit
LoopCondition(n, results_limit) == n = results_limit

\* line 97: images[results_limit - 1].id_ (0-based index)
NextMarkerFirst(page, results_limit) == page[1].id_
NextMarker(page, results_limit) == page[(results_limit - 1) + 1].id_

\* lines 96 and 107: image_list += images
AccumulateDropping(list, page) == IF list = <<>> THEN page ELSE list
Accumulate(list, page) == list \o page

PageIdle ==
    /\ ppc = "idle" /\ pargs = PyNone /\ requests = <<>> /\ pages = <<>>
    /\ images = <<>> /\ image_list = <<>> /\ marker = PyNone /\ presult = PyNone

\* lines 84-94
ListCall ==
    /\ ppc = "idle"
    /\ \E m \in {PyNone} \cup { ImageId(k) : k \in 1..(IF service.kind = "cursor"
                                                          THEN service.n ELSE 1) },
          limit \in LimitArgs, filters \in {"f1", "f2"} :
         /\ pargs' = [filters |-> filters, limit |-> limit, marker |-> m]
         /\ marker' = m
         /\ requests' = <<[filters |-> filters, limit |-> limit, marker |-> m]>>
         /\ \E page \in ListImagesEntity([filters |-> filters, limit |-> limit, marker |-> m]) :
              /\ images' = page
              /\ pages' = <<page>>
    /\ image_list' = <<>>
    /\ ppc' = "test"
    /\ UNCHANGED <<service, presult>>

\* line 95
PageLoopTest ==
    /\ ppc = "test"
    /\ ppc' = IF LoopCondition(Len(images), config.results_limit) THEN "body" ELSE "finish"
    /\ UNCHANGED <<pargs, service, requests, pages, images, image_list, marker, presult>>

\* lines 96-106
PageLoopBody ==
    /\ ppc = "body"
    /\ Len(requests) < RequestCap
    /\ image_list' = Accumulate(image_list, images)
    /\ marker' = NextMarker(images, config.results_limit)
    /\ requests' = Append(requests, Kwargs(marker'))
    /\ \E page \in ListImagesEntity(Kwargs(marker')) :
         /\ images' = page
         /\ pages' = Append(pages, page)
    /\ ppc' = "test"
    /\ UNCHANGED <<pargs, service, presult>>

\* lines 107-108
PageFinishWithoutLastPage ==
    /\ ppc = "finish"
    /\ presult' = PyList(image_list)
    /\ ppc' = "done"
    /\ UNCHANGED <<pargs, service, requests, pages, images, image_list, marker>>
PageFinish ==
    /\ ppc = "finish"
    /\ image_list' = Accumulate(image_list, images)
    /\ presult' = PyList(image_list')
    /\ ppc' = "done"
    /\ UNCHANGED <<pargs, service, requests, pages, images, marker>>

(***************************************************************************)
(* validate_image / validate_image_member                                  *)
(***************************************************************************)
Chars_v2_images == <<"/","v","2","/","i","m","a","g","e","s","/">>
Chars_file == <<"/","f","i","l","e">>
Chars_None == <<"N","o","n","e">>

\* str(x) as str.format applies it to `{0}`
str(x) == IF x = PyNone THEN Chars_None ELSE x.val

\* '/v2/images/{0}/file'.format(image.id_), lines 138 and 140
FileOf(id_) == PyStr(Chars_v2_images \o str(id_) \o Chars_file)
\* '/v2/images/{0}'.format(image.id_), lines 152 and 154
SelfOf(id_) == PyStr(Chars_v2_images \o str(id_))

\* ImageProperties.ID_REGEX: five groups of hexadecimal digits, of these
\* lengths, joined by "-", between ^ and $
IdGroups == <<8, 4, 4, 4, 12>>
HexDigits == {"0","1","2","3","4","5","6","7","8","9",
              "a","b","c","d","e","f","A","B","C","D","E","F"}
RECURSIVE MatchGroups(_, _)
MatchGroups(chars, groups) ==
    LET n == Head(groups)
    IN /\ Len(chars) >= n
       /\ \A i \in 1..n : chars[i] \in HexDigits
       /\ IF Len(groups) = 1
             \* $ matches at the end, and just before a newline that ends the string
             THEN SubSeq(chars, n + 1, Len(chars)) \in { <<>>, <<"\n">> }
             ELSE /\ Len(chars) > n
                  /\ chars[n + 1] = "-"
                  /\ MatchGroups(SubSeq(chars, n + 2, Len(chars)), Tail(groups))

\* self.id_regex.match(x), line 141: re.match raises TypeError unless x is a
\* string; otherwise a match object or None
id_regex_match(x) ==
    IF x.type # "str" THEN "TypeError"
    ELSE IF MatchGroups(x.val, IdGroups) THEN "match" ELSE "None"

\* Messages.ERROR_MSG.format(a, b, c), constants.py line 29
error_msg_format(a, b, c) ==
    <<"Unexpected ", a, " value received. Expected: ", b, ", Received: ", c>>

\* Schemas.IMAGE_SCHEMA and Schemas.IMAGE_MEMBER_SCHEMA
IMAGE_SCHEMA == PyStr(<<"/v2/schemas/image">>)
IMAGE_MEMBER_SCHEMA == PyStr(<<"/v2/schemas/member">>)

\* one `if ...: errors.append(...)` statement
AppendIf(errors, cond, msg) == IF cond THEN Append(errors, msg) ELSE errors

\* lines 135-159; the result is the list returned, or the exception raised
validate_image(img) ==
    LET e1 == AppendIf(<<>>, img.created_at = PyNone,
                       error_msg_format("created_at", PyTrue, PyNone))
        e2 == AppendIf(e1, img.file_ # FileOf(img.id_),
                       error_msg_format("file_", FileOf(img.id_), img.file_))
        m  == id_regex_match(img.id_)
        e3 == AppendIf(e2, m = "None", error_msg_format("id_", PyTrue, PyNone))
        e4 == AppendIf(e3, img.min_disk = PyNone,
                       error_msg_format("min_disk", PyTrue, PyNone))
        e5 == AppendIf(e4, img.min_ram = PyNone,
                       error_msg_format("min_ram", PyTrue, PyNone))
        e6 == AppendIf(e5, img.protected = PyNone,
                       error_msg_format("protected", PyTrue, PyNone))
        e7 == AppendIf(e6, img.schema # IMAGE_SCHEMA,
                       error_msg_format("schema", IMAGE_SCHEMA, img.schema))
        e8 == AppendIf(e7, img.self_ # SelfOf(img.id_),
                       error_msg_format("schema", SelfOf(img.id_), img.self_))
        e9 == AppendIf(e8, img.status = PyNone,
                       error_msg_format("status", PyTrue, PyNone))
        e10 == AppendIf(e9, img.updated_at = PyNone,
                        error_msg_format("updated_at", PyTrue, PyNone))
    IN IF m = "TypeError"
          THEN [raised |-> "TypeError", errors |-> <<>>]
          ELSE [raised |-> "none", errors |-> e10]

\* lines 166-182
validate_image_member(image_id, member, member_id) ==
    LET e1 == AppendIf(<<>>, member.created_at = PyNone,
                       error_msg_format("created_at", PyTrue, PyNone))
        e2 == AppendIf(e1, member.image_id # image_id,
                       error_msg_format("image_id", image_id, member.image_id))
        e3 == AppendIf(e2, member.member_id # member_id,
                       error_msg_format("member_id", member_id, member.member_id))
        e4 == AppendIf(e3, member.schema # IMAGE_MEMBER_SCHEMA,
                       error_msg_format("schema", IMAGE_MEMBER_SCHEMA, member.schema))
        e5 == AppendIf(e4, member.status = PyNone,
                       error_msg_format("status", PyTrue, PyNone))
        e6 == AppendIf(e5, member.updated_at = PyNone,
                       error_msg_format("updated_at", PyTrue, PyNone))
    IN [raised |-> "none", errors |-> e6]

\* values a deserialized field may hold
Rep(c, n) == [i \in 1..n |-> c]
Uuid(c) == Rep(c, 8) \o <<"-">> \o Rep(c, 4) \o <<"-">> \o Rep(c, 4) \o <<"-">>
             \o Rep(c, 4) \o <<"-">> \o Rep(c, 12)
SomeValue == [type |-> "object"]
Present == { PyNone, SomeValue }
IdValues == { PyNone, PyStr(Uuid("a")), PyStr(Uuid("F")), PyStr(Uuid("g")),
              PyStr(Rep("0", 8)) }
FileValues == { PyNone, FileOf(PyStr(Uuid("a"))), FileOf(PyStr(Uuid("g"))), FileOf(PyNone) }
SelfValues == { PyNone, SelfOf(PyStr(Uuid("a"))), SelfOf(PyStr(Uuid("F"))), SelfOf(PyNone) }
SchemaValues == { PyNone, IMAGE_SCHEMA, IMAGE_MEMBER_SCHEMA }
Images == [created_at : Present, file_ : FileValues, id_ : IdValues, min_disk : Present,
           min_ram : Present, protected : Present, schema : SchemaValues,
           self_ : SelfValues, status : Present, updated_at : Present]
MemberIdValues == { PyNone, PyStr(<<"t","1">>), PyStr(<<"t","2">>) }
ImageIdValues == { PyNone, PyStr(Uuid("a")), PyStr(Uuid("F")) }
Members == [created_at : Present, image_id : ImageIdValues, member_id : MemberIdValues,
            schema : SchemaValues, status : Present, updated_at : Present]

NoImage == [created_at |-> PyNone, file_ |-> PyNone, id_ |-> PyNone, min_disk |-> PyNone,
            min_ram |-> PyNone, protected |-> PyNone, schema |-> PyNone,
            self_ |-> PyNone, status |-> PyNone, updated_at |-> PyNone]
NoMember == [created_at |-> PyNone, image_id |-> PyNone, member_id |-> PyNone,
             schema |-> PyNone, status |-> PyNone, updated_at |-> PyNone]
NoResult == [raised |-> "none", errors |-> <<>>]

ValidateIdle ==
    /\ vpc = "idle" /\ image = NoImage /\ image_member = NoMember
    /\ vargs = [call |-> "none", image_id |-> PyNone, member_id |-> PyNone]
    /\ vresult = NoResult

\* a call of validate_image(image)
ValidateImage ==
    /\ vpc = "idle" /\ vargs.call = "validate_image"
    /\ vresult' = validate_image(image)
    /\ vpc' = "done"
    /\ UNCHANGED <<image, image_member, vargs>>

\* a call of validate_image_member(image_id, image_member, member_id)
ValidateImageMember ==
    /\ vpc = "idle" /\ vargs.call = "validate_image_member"
    /\ vresult' = validate_image_member(vargs.image_id, image_member, vargs.member_id)
    /\ vpc' = "done"
    /\ UNCHANGED <<image, image_member, vargs>>

(***************************************************************************)
(* create_new_image / create_new_images                                    *)
(***************************************************************************)
\* the keyword arguments a caller may give: nothing, or every argument
CallerKwargs == { [container_format |-> PyNone, disk_format |-> PyNone, name |-> PyNone,
                   other |-> PyNone],
                  [container_format |-> PyStr(<<"ovf">>), disk_format |-> PyStr(<<"qcow2">>),
                   name |-> PyStr(<<"mine">>), other |-> SomeValue] }
\* rand_name('image'): a fresh random name
RandNames == { PyStr(<<"image", "1">>), PyStr(<<"image", "2">>) }
\* response.entity of client.create_image: None, or an image with an id_
CreatedEntities == { PyNone } \cup { Entity(k) : k \in ReportedIds }

Default(x, d) == IF x = PyNone THEN d ELSE x

\* lines 46-55: the keyword arguments create_image is called with
CreateImageKwargs(kw, rand) ==
    [container_format |-> Default(kw.container_format, PyStr(<<"ImageContainerFormat.BARE">>)),
     disk_format |-> Default(kw.disk_format, PyStr(<<"ImageDiskFormat.RAW">>)),
     name |-> Default(kw.name, rand),
     other |-> kw.other]

\* lines 57-58: self.resources.add(image.id_, self.client.delete_image)
TrackAlways(pool, entity) ==
    Append(pool, [resource_id |-> IF entity = PyNone THEN PyNone ELSE entity.id_,
                  delete_function |-> "client.delete_image"])
Track(pool, entity) ==
    IF entity # PyNone
       THEN Append(pool, [resource_id |-> entity.id_,
                          delete_function |-> "client.delete_image"])
       ELSE pool

CreateIdle ==
    /\ cpc = "idle" /\ cargs = [kwargs |-> PyNone, count |-> 0, callsBefore |-> 0]
    /\ resources = <<>> /\ createCalls = <<>> /\ entities = <<>>
    /\ cimage_list = <<>> /\ ci = 0 /\ creturned = PyNone

\* lines 46-59: the body of create_new_image with the client's answer `entity`
CreateBody(kw, rand, entity) ==
    /\ createCalls' = Append(createCalls, CreateImageKwargs(kw, rand))
    /\ entities' = Append(entities, entity)
    /\ resources' = Track(resources, entity)

\* a call of create_new_image
CreateNewImage ==
    /\ cpc = "idle"
    /\ Len(createCalls) < MaxCreates
    /\ \E kw \in CallerKwargs, rand \in RandNames, entity \in CreatedEntities :
         /\ CreateBody(kw, rand, entity)
         /\ cargs' = [kwargs |-> kw, count |-> 1, callsBefore |-> Len(createCalls)]
         /\ creturned' = [type |-> "image", val |-> <<entity>>]
    /\ UNCHANGED <<cpc, cimage_list, ci>>

\* line 66: a call of create_new_images(count=count)
CreateNewImagesCall ==
    /\ cpc = "idle"
    /\ \E kw \in CallerKwargs, count \in 0..MaxCount :
         /\ Len(createCalls) + count <= MaxCreates
         /\ cargs' = [kwargs |-> kw, count |-> count, callsBefore |-> Len(createCalls)]
    /\ cimage_list' = <<>>
    /\ ci' = 0
    /\ cpc' = "loop"
    /\ UNCHANGED <<resources, createCalls, entities, creturned>>

\* lines 67-72: one iteration of `for i in range(count)`
LoopContinues(i, count) == i < count
CreateNewImagesIter ==
    /\ cpc = "loop"
    /\ LoopContinues(ci, cargs.count)
    /\ \E rand \in RandNames, entity \in CreatedEntities :
         /\ CreateBody(cargs.kwargs, rand, entity)
         /\ cimage_list' = Append(cimage_list, entity)
    /\ ci' = ci + 1
    /\ UNCHANGED <<cpc, cargs, creturned>>

\* line 73
CreateNewImagesReturn ==
    /\ cpc = "loop"
    /\ ~LoopContinues(ci, cargs.count)
    /\ creturned' = PyList(cimage_list)
    /\ cpc' = "idle"
    /\ UNCHANGED <<cargs, resources, createCalls, entities, cimage_list, ci>>


(***************************************************************************)
(* Specifications: one per operation, each from the state after            *)
(* construction (__init__, lines 33-39) with the operation's inputs drawn  *)
(* from bounded sets                                                       *)
(***************************************************************************)
Configs == [image_status_interval : 1..MaxInterval, snapshot_timeout : 1..MaxTimeout,
            results_limit : 1..MaxLimit]
DefaultConfig == [image_status_interval |-> 1, snapshot_timeout |-> 1, results_limit |-> 1]
NoService == [kind |-> "any", n |-> 0]

WaitInit ==
    /\ WaitIdle /\ PageIdle /\ ValidateIdle /\ CreateIdle
    /\ config \in { c \in Configs : c.results_limit = 1 }
    /\ imageHasId \in BOOLEAN
    /\ ERROR \in ErrorSentinels
    /\ service = NoService
NextWait ==
    \/ WaitCall /\ UNCHANGED <<pageVars, validVars, createVars>>
    \/ WaitLoopTest /\ UNCHANGED <<pageVars, validVars, createVars>>
    \/ WaitGetImage /\ UNCHANGED <<pageVars, validVars, createVars>>
    \/ WaitCheckError /\ UNCHANGED <<pageVars, validVars, createVars>>
    \/ WaitCheckDesired /\ UNCHANGED <<pageVars, validVars, createVars>>
    \/ WaitSleep /\ UNCHANGED <<pageVars, validVars, createVars>>
SpecWait == WaitInit /\ [][NextWait]_vars

PageConfigs == { c \in Configs : c.image_status_interval = 1 /\ c.snapshot_timeout = 1 }
NextPage ==
    \/ ListCall /\ UNCHANGED <<waitVars, validVars, createVars>>
    \/ PageLoopTest /\ UNCHANGED <<waitVars, validVars, createVars>>
    \/ PageLoopBody /\ UNCHANGED <<waitVars, validVars, createVars>>
    \/ PageFinish /\ UNCHANGED <<waitVars, validVars, createVars>>
\* against a service about which nothing is assumed
PageInit ==
    /\ WaitIdle /\ PageIdle /\ ValidateIdle /\ CreateIdle
    /\ config \in PageConfigs
    /\ imageHasId = FALSE /\ ERROR = <<"e","r","r","o","r">>
    /\ service = NoService
SpecPage == PageInit /\ [][NextPage]_vars
\* against the cursor service
CursorInit ==
    /\ WaitIdle /\ PageIdle /\ ValidateIdle /\ CreateIdle
    /\ config \in PageConfigs
    /\ imageHasId = FALSE /\ ERROR = <<"e","r","r","o","r">>
    /\ service \in { [kind |-> "cursor", n |-> n] : n \in 0..MaxItems }
SpecCursor == CursorInit /\ [][NextPage]_vars

ValidateInit ==
    /\ WaitIdle /\ PageIdle /\ CreateIdle
    /\ config = DefaultConfig /\ imageHasId = FALSE /\ ERROR = <<"e","r","r","o","r">>
    /\ service = NoService
    /\ vpc = "idle" /\ vresult = NoResult
    /\ \/ /\ image \in Images
          /\ image_member = NoMember
          /\ vargs = [call |-> "validate_image", image_id |-> PyNone, member_id |-> PyNone]
       \/ /\ image = NoImage
          /\ image_member \in Members
          /\ vargs \in [call : {"validate_image_member"}, image_id : ImageIdValues,
                         member_id : MemberIdValues]
NextValidate ==
    \/ ValidateImage /\ UNCHANGED <<waitVars, pageVars, createVars>>
    \/ ValidateImageMember /\ UNCHANGED <<waitVars, pageVars, createVars>>
SpecValidate == ValidateInit /\ [][NextValidate]_vars

CreateInit ==
    /\ WaitIdle /\ PageIdle /\ ValidateIdle /\ CreateIdle
    /\ config = DefaultConfig /\ imageHasId = FALSE /\ ERROR = <<"e","r","r","o","r">>
    /\ service = NoService
NextCreate ==
    \/ CreateNewImage /\ UNCHANGED <<waitVars, pageVars, validVars>>
    \/ CreateNewImagesCall /\ UNCHANGED <<waitVars, pageVars, validVars>>
    \/ CreateNewImagesIter /\ UNCHANGED <<waitVars, pageVars, validVars>>
    \/ CreateNewImagesReturn /\ UNCHANGED <<waitVars, pageVars, validVars>>
SpecCreate == CreateInit /\ [][NextCreate]_vars
\* wait_for_image_status as a sequential program that always takes its next step
FairSpecWait == SpecWait /\ WF_vars(NextWait)

(***************************************************************************)
(* Properties of wait_for_image_status                                     *)
(***************************************************************************)
Fetched == nFetch > 0
\* the latest fetch reported the error status, in any letter case
FetchedError == Fetched /\ lower(resp.status) = <<"e","r","r","o","r">>
\* the latest fetch reported exactly desired_status
FetchedDesired == Fetched /\ resp.status = wargs.desired_status
\* the latest fetch reported desired_status in another letter case
FetchedDesiredInOtherCase ==
    /\ Fetched
    /\ resp.status # wargs.desired_status
    /\ lower(resp.status) = lower(wargs.desired_status)
\* both checks of the latest fetch have been made
Checked == Fetched /\ wpc \notin {"chkError", "chkDesired"}

\* C1: once a fetch has reported the error status (any letter case), the call
\* has ended with BuildErrorException: no later get_image call, no sleep,
\* no normal return, no TimeoutException and no other exception.
C1_ErrorFailsWithBuildError ==
    (FetchedError /\ wpc # "chkError")
        => /\ wpc = "done"
           /\ woutcome = "BuildErrorException"
           /\ resp.fetch = nFetch
           /\ sleptSince = 0
           /\ wreturned = 0

\* What the code does on the error status: the call ends at once, without a
\* further fetch or sleep, with BuildErrorException or with the
\* AttributeError of reading image.id.
ErrorEndsCall ==
    (FetchedError /\ wpc # "chkError")
        => /\ wpc = "done"
           /\ woutcome \in {"BuildErrorException", "AttributeError"}
           /\ resp.fetch = nFetch
           /\ sleptSince = 0
           /\ wreturned = 0

\* C2: once a fetch has reported desired_status (and not the error status),
\* the call has returned the result of that fetch, the latest one, with no
\* sleep and no get_image call after it; and a normal return always hands
\* back the latest fetch, whose status is desired_status.
C2_ReturnsLastFetch ==
    /\ (FetchedDesired /\ ~FetchedError /\ Checked)
          => /\ wpc = "done"
             /\ woutcome = "return"
             /\ wreturned = nFetch
             /\ resp.fetch = nFetch
             /\ sleptSince = 0
    /\ woutcome = "return"
          => /\ wpc = "done"
             /\ FetchedDesired
             /\ wreturned = nFetch
             /\ resp.fetch = nFetch
             /\ sleptSince = 0
C2_Witness ==
    wpc = "done" /\ woutcome = "return" /\ nFetch >= 2 /\ wreturned = nFetch

\* C3: the call ends in exactly one of build error, normal return, timeout;
\* no get_image call starts at or after end_time = start + timeout; and
\* TimeoutException is raised only at or after the deadline, when the latest
\* fetch (if any) reported neither desired_status nor the error status.
C3_ThreeOutcomes ==
    /\ wpc = "done" => woutcome \in {"BuildErrorException", "return", "TimeoutException"}
    /\ wpc # "done" => woutcome = "none"
    /\ Fetched => fetchStart < wargs.end_time
    /\ woutcome = "TimeoutException"
          => /\ now >= wargs.end_time
             /\ ~FetchedDesired
             /\ ~FetchedError

\* What the code does: the parts of C3 other than the build-error outcome.
DeadlineRespected ==
    /\ wpc = "done" => woutcome \in {"BuildErrorException", "AttributeError", "return",
                                       "TimeoutException"}
    /\ wpc # "done" => woutcome = "none"
    /\ Fetched => fetchStart < wargs.end_time
    /\ woutcome = "TimeoutException"
          => /\ now >= wargs.end_time
             /\ ~FetchedDesired
             /\ ~FetchedError
\* With interval_time > 0 every call ends.
WaitTerminates == <>(wpc = "done")

\* C10: the error check comes first and ignores letter case, the desired
\* check is exact: a call whose desired_status is the error status in any
\* letter case never returns normally; and after a fetch whose status is
\* desired_status only up to letter case (and is not the error status) the
\* call does not return: it sleeps and goes back to the loop test.
C10_ErrorFirstDesiredExact ==
    /\ (wpc # "idle" /\ lower(wargs.desired_status) = <<"e","r","r","o","r">>)
          => woutcome # "return"
    /\ (FetchedDesiredInOtherCase /\ ~FetchedError /\ Checked)
          => /\ woutcome \in {"none", "TimeoutException"}
             /\ wpc = "sleep" \/ sleptSince = 1
             /\ wpc \in {"sleep", "test", "fetch", "done"}
             /\ wpc = "done" => (woutcome = "TimeoutException" /\ now >= wargs.end_time)
C10_Witness ==
    FetchedDesiredInOtherCase /\ ~FetchedError /\ wpc = "fetch" /\ sleptSince = 1
(***************************************************************************)
(* Properties of list_images_pagination                                    *)
(***************************************************************************)
RECURSIVE Concat(_)
Concat(ps) == IF ps = <<>> THEN <<>> ELSE Head(ps) \o Concat(Tail(ps))
AllButLast(q) == SubSeq(q, 1, Len(q) - 1)
LastPage == pages[Len(pages)]
Called == ppc # "idle"

\* C4 as stated: requests stop at the first page strictly shorter than
\* results_limit, and go on after every page that is not strictly shorter.
C4_StopsOnlyOnShortPage ==
    Called =>
      /\ \A i \in 1..(Len(pages) - 1) : Len(pages[i]) >= config.results_limit
      /\ ppc \in {"finish", "done"} => Len(LastPage) < config.results_limit
      /\ ppc = "body" => Len(LastPage) >= config.results_limit

\* C4 as amended: requests stop at the first page whose length differs from
\* results_limit (shorter or longer), and go on after every page whose
\* length equals results_limit; each request is answered by one page.
C4_StopsOnPageNotOfLimitLength ==
    Called =>
      /\ Len(requests) = Len(pages)
      /\ \A i \in 1..(Len(pages) - 1) : Len(pages[i]) = config.results_limit
      /\ ppc \in {"finish", "done"} => Len(LastPage) # config.results_limit
      /\ ppc = "body" => Len(LastPage) = config.results_limit
C4_Witness ==
    ppc = "done" /\ Len(pages) >= 2 /\ Len(LastPage) > config.results_limit

\* C5: the returned list is the concatenation, in request order, of every
\* page received, the final one included; while the loop runs the
\* accumulator is the concatenation of the pages before the current one.
C5_ResultIsConcatenation ==
    Called =>
      /\ images = LastPage
      /\ ppc \in {"test", "body", "finish"} => image_list = Concat(AllButLast(pages))
      /\ ppc = "done" => /\ image_list = Concat(pages)
                         /\ presult = PyList(Concat(pages))
      /\ ppc # "done" => presult = PyNone
C5_Witness ==
    ppc = "done" /\ Len(pages) >= 3 /\ Len(LastPage) >= 1
      /\ Len(presult.val) > Len(pages[1]) + Len(LastPage)

\* C6: the first request carries the caller's marker, every later request
\* the id_ of the last item of the page received just before it; limit and
\* the other filter arguments are the caller's on every request.
C6_MarkerAdvances ==
    Called =>
      /\ requests[1].marker = pargs.marker
      /\ \A i \in 2..Len(requests) :
            /\ pages[i - 1] # <<>>
            /\ requests[i].marker = pages[i - 1][Len(pages[i - 1])].id_
      /\ \A i \in 1..Len(requests) :
            /\ requests[i].limit = pargs.limit
            /\ requests[i].filters = pargs.filters
C6_Witness ==
    /\ Len(requests) >= 3 /\ pargs.marker # PyNone /\ config.results_limit >= 2
    /\ requests[3].marker # requests[2].marker
    /\ pages[2][1].id_ # requests[3].marker

\* C7: against the cursor service with N items and page size L =
\* results_limit >= 1, a call without a marker makes exactly N \div L + 1
\* requests and returns the N items once each in service order; when N is a
\* positive multiple of L the request after the last full page is answered
\* by the empty page.
C7_CursorServiceListing ==
    (Called /\ pargs.marker = PyNone) =>
      LET N == service.n
          L == config.results_limit
      IN /\ Len(requests) <= (N \div L) + 1
         /\ ppc \in {"finish", "done"} => Len(requests) = (N \div L) + 1
         /\ ppc = "done" =>
               /\ presult = PyList([k \in 1..N |-> Entity(k)])
               /\ (N > 0 /\ N % L = 0) =>
                     /\ LastPage = <<>>
                     /\ Len(pages[Len(pages) - 1]) = L
C7_Witness ==
    /\ ppc = "done" /\ pargs.marker = PyNone
    /\ config.results_limit = 2 /\ service.n = 4
    /\ Len(requests) = 3 /\ LastPage = <<>> /\ Len(presult.val) = 4
(***************************************************************************)
(* Properties of validate_image and validate_image_member                  *)
(***************************************************************************)
\* the labels validate_image gives the messages of its rules, in the order
\* of the checks, of the rules that `img` violates (the self_ rule is
\* reported under the label 'schema', line 154)
IsWellFormedId(x) == x.type = "str" /\ MatchGroups(x.val, IdGroups)
Only(cond, label) == IF cond THEN <<label>> ELSE <<>>
ImageViolations(img) ==
    Only(img.created_at = PyNone, "created_at")
      \o Only(img.file_ # FileOf(img.id_), "file_")
      \o Only(~IsWellFormedId(img.id_), "id_")
      \o Only(img.min_disk = PyNone, "min_disk")
      \o Only(img.min_ram = PyNone, "min_ram")
      \o Only(img.protected = PyNone, "protected")
      \o Only(img.schema # IMAGE_SCHEMA, "schema")
      \o Only(img.self_ # SelfOf(img.id_), "schema")
      \o Only(img.status = PyNone, "status")
      \o Only(img.updated_at = PyNone, "updated_at")
MemberViolations(image_id, member, member_id) ==
    Only(member.created_at = PyNone, "created_at")
      \o Only(member.image_id # image_id, "image_id")
      \o Only(member.member_id # member_id, "member_id")
      \o Only(member.schema # IMAGE_MEMBER_SCHEMA, "schema")
      \o Only(member.status = PyNone, "status")
      \o Only(member.updated_at = PyNone, "updated_at")
Labels(errors) == [i \in 1..Len(errors) |-> errors[i][2]]
ExpectedViolations ==
    IF vargs.call = "validate_image" THEN ImageViolations(image)
    ELSE MemberViolations(vargs.image_id, image_member, vargs.member_id)

\* C8: a validation call never fails fast: whatever fields are missing or
\* wrong it returns normally, with one message per violated rule in the
\* order of the checks (so the list is empty exactly when no rule is
\* violated).
C8_ValidateNeverFailsFast ==
    vpc = "done" =>
      /\ vresult.raised = "none"
      /\ Labels(vresult.errors) = ExpectedViolations

\* What the code does: the same, except that validate_image raises
\* TypeError, and reports nothing, when image.id_ is not a string.
ValidateReportsAllUnlessIdIsNone ==
    vpc = "done" =>
      IF vargs.call = "validate_image" /\ image.id_ = PyNone
         THEN vresult.raised = "TypeError"
         ELSE /\ vresult.raised = "none"
              /\ Labels(vresult.errors) = ExpectedViolations

(***************************************************************************)
(* Properties of create_new_image and create_new_images                    *)
(***************************************************************************)
IsImage(entity) == entity # PyNone
Registration(entity) == [resource_id |-> entity.id_, delete_function |-> "client.delete_image"]
Registrations(es) == LET kept == SelectSeq(es, IsImage)
                     IN [i \in 1..Len(kept) |-> Registration(kept[i])]

\* C9: the resource pool holds, in creation order, one registration with
\* client.delete_image for every non-None entity create_image has returned
\* and nothing else; create_new_images(count=n) makes exactly n create_image
\* calls and returns their n entities in creation order, None included.
C9_CreateAndTrack ==
    /\ Len(createCalls) = Len(entities)
    /\ resources = Registrations(entities)
    /\ cpc = "loop" =>
          /\ ci <= cargs.count
          /\ Len(createCalls) = cargs.callsBefore + ci
          /\ cimage_list = SubSeq(entities, cargs.callsBefore + 1, Len(entities))
    /\ (cpc = "idle" /\ creturned.type = "list") =>
          /\ Len(createCalls) = cargs.callsBefore + cargs.count
          /\ Len(creturned.val) = cargs.count
          /\ creturned.val = SubSeq(entities, cargs.callsBefore + 1, Len(entities))
    /\ (cpc = "idle" /\ creturned.type = "image") =>
          /\ Len(createCalls) = cargs.callsBefore + 1
          /\ creturned.val = <<entities[Len(entities)]>>
C9_Witness ==
    /\ cpc = "idle" /\ creturned.type = "list" /\ cargs.count = 2
    /\ cargs.callsBefore = 1
    /\ creturned.val[1] = PyNone /\ creturned.val[2] # PyNone
    /\ Len(resources) = 2
====
